---- MODULE Spec2Model ----
(***************************************************************************)
(* State-machine model of the two command-line entry points                *)
(*   scripts/diarize_audio.py               (get_device, diarize_audio,    *)
(*                                           main)                         *)
(*   scripts/archive/benchmark_diarization.py (benchmark_diarization,      *)
(*                                           main)                         *)
(* The external collaborators (torch capability probes, the pyannote       *)
(* pipeline, ffprobe, the wall clock, the user's interrupt key) are the    *)
(* environment: their answers are drawn nondeterministically.              *)
(***************************************************************************)
EXTENDS Integers, Sequences, FiniteSets, TLC

----------------------------------------------------------------------------
(* Bounds of the model *)

\* number of command-line words after the audio path
MaxFlags == 2
\* number of turns the pipeline's track iterator yields
MaxTurns == 2
\* elapsed wall-clock ticks of one invoker run are 0..MaxElapsed
MaxElapsed == 5

(* Program constants *)

\* benchmark_diarization: speedup >= 5
TierExcellent == 5
\* benchmark_diarization: speedup >= 3
TierGood == 3
\* benchmark_diarization: speedup >= 1.5, kept as the fraction 3/2
TierModerateNum == 3
TierModerateDen == 2
\* benchmark_diarization: duration >= 300
LongRecording == 300

----------------------------------------------------------------------------
(* Values *)

\* Python's None
None == "<None>"

\* not x, for x a str or None
Falsy(x) == x = None \/ x = ""

ProgName == "prog"
GoodPath == "a.wav"
BadPath == "missing.wav"

\* os.path.exists
PathExists(p) == p = GoodPath

\* the first command-line word, when there is one
PathWords == {GoodPath, BadPath}
\* the words after it
FlagWords == {"--token", "--no-gpu", "", "tokA"}
\* values of os.environ.get("HUGGINGFACE_TOKEN")
EnvTokens == {None, "", "tokE"}

SeqsUpTo(S, n) == UNION {[1..k -> S] : k \in 0..n}

\* sys.argv of the diarization CLI, program name first
CliArgvs ==
  {<<ProgName>>} \cup {<<ProgName, p>> \o f : p \in PathWords, f \in SeqsUpTo(FlagWords, MaxFlags)}

\* sys.argv of the benchmark, which reads nothing after the path
BenchArgvs == {<<ProgName>>} \cup {<<ProgName, p>> : p \in PathWords}

\* x in s, for a list s
PyIn(x, s) == \E i \in DOMAIN s : s[i] = x

\* s.index(x), 0-based index of the first occurrence
PyIndex(s, x) == (CHOOSE i \in DOMAIN s : s[i] = x /\ \A j \in 1..(i-1) : s[j] # x) - 1

\* s[k], 0-based
PyAt(s, k) == s[k + 1]

\* a label json.dumps cannot encode (e.g. a numpy integer)
BadLabel == "<np.int64>"
Labels == {"SPEAKER_00", "SPEAKER_01"}

\* a time as the pipeline hands it out (kind "np") or as float() returns it
Time(k, n) == [kind |-> k, v |-> n]

\* start times of turns, in ticks
TurnStarts == {0, 1}

\* the (turn, track, label) records of itertracks(yield_label=True)
Turns ==
  {[start |-> Time("np", s), end |-> Time("np", s + 1), track |-> "A", speaker |-> l] :
      s \in TurnStarts, l \in Labels}
  \cup {[start |-> Time("np", 0), end |-> Time("np", 1), track |-> "A", speaker |-> BadLabel]}

TurnSeqs == SeqsUpTo(Turns, MaxTurns)

\* ffprobe's answer when it parses; 0 and LongRecording are the edges of the code's tests
Durations == {0, 60, LongRecording}

\* float(x)
Float(x) == Time("float", x.v)

----------------------------------------------------------------------------
(* Pure functions of the source *)

\* a mutant of get_device: CUDA probed before Metal
GetDeviceCudaFirst(use_gpu, mpsAvail, cudaAvail) ==
  IF ~use_gpu THEN "cpu"
  ELSE IF cudaAvail THEN "cuda"
  ELSE IF mpsAvail THEN "mps"
  ELSE "cpu"

\* get_device(use_gpu) under the capability environment: is Metal available, is CUDA
GetDevice(use_gpu, mpsAvail, cudaAvail) ==
  IF ~use_gpu THEN "cpu"
  ELSE IF mpsAvail THEN "mps"
  ELSE IF cudaAvail THEN "cuda"
  ELSE "cpu"

\* a mutant of the projection loop: a turn whose speaker equals the previous
\* segment's speaker is merged into it
RECURSIVE ProjectMerging(_)
ProjectMerging(turns) ==
  IF turns = <<>> THEN <<>>
  ELSE LET n == Len(turns)
           init == ProjectMerging(SubSeq(turns, 1, n - 1))
           t == turns[n]
       IN IF init # <<>> /\ init[Len(init)].speaker = t.speaker
          THEN [init EXCEPT ![Len(init)].end = Float(t.end)]
          ELSE Append(init, [start |-> Float(t.start), end |-> Float(t.end),
                             speaker |-> t.speaker])

\* the loop of diarize_audio over itertracks: one append per turn, in order
RECURSIVE Project(_)
Project(turns) ==
  IF turns = <<>> THEN <<>>
  ELSE LET n == Len(turns)
           t == turns[n]
       IN Append(Project(SubSeq(turns, 1, n - 1)),
                 [start |-> Float(t.start), end |-> Float(t.end), speaker |-> t.speaker])

\* json.dumps raises TypeError on a value it cannot encode
JsonEncodable(result) == \A i \in DOMAIN result.segments : result.segments[i].speaker # BadLabel

\* json.dumps(result, indent=2): the whole object as one text
JsonDumps(result) == <<"{", "segments", result.segments, "}">>

\* a mutant of the token resolution: the environment variable wins over the flag
ResolveTokenEnvFirst(args, envTok) ==
  IF ~Falsy(envTok) THEN envTok
  ELSE IF PyIn("--token", args) /\ PyIndex(args, "--token") + 1 < Len(args)
       THEN PyAt(args, PyIndex(args, "--token") + 1)
       ELSE None

\* main of diarize_audio.py: hf_token after the flag and environment lookups
ResolveToken(args, envTok) ==
  LET flag == IF PyIn("--token", args)
              THEN LET token_index == PyIndex(args, "--token") + 1
                   IN IF token_index < Len(args) THEN PyAt(args, token_index) ELSE None
              ELSE None
  IN IF Falsy(flag) THEN envTok ELSE flag

----------------------------------------------------------------------------
VARIABLES
  prog,        \* which entry point runs: "cli" or "bench"
  argv,        \* sys.argv
  envToken,    \* os.environ.get("HUGGINGFACE_TOKEN")
  mps,         \* torch.backends.mps.is_available()
  cuda,        \* torch.cuda.is_available()
  pc,          \* position of main / benchmark_diarization
  exitCode,    \* process exit status, -1 while running
  stdout,      \* lines written to standard output
  stderr,      \* lines written to the error stream
  hf_token,    \* main's hf_token
  ipc,         \* position of the current diarize_audio call
  i_use_gpu,   \* diarize_audio's use_gpu parameter
  device,      \* diarize_audio's device
  output,      \* the turns the pipeline returned
  result,      \* diarize_audio's return value
  duration,    \* benchmark_diarization's duration
  b_device,    \* benchmark_diarization's device
  results,     \* benchmark_diarization's results dict
  trace,       \* history: calls made, in order
  interrupted  \* history: a KeyboardInterrupt arrived inside benchmark_diarization

vars == <<prog, argv, envToken, mps, cuda, pc, exitCode, stdout, stderr, hf_token,
          ipc, i_use_gpu, device, output, result, duration, b_device, results, trace,
          interrupted>>

env == <<prog, argv, envToken, mps, cuda>>
invoker == <<ipc, i_use_gpu, device, output, result>>

Line(tag, a, b) == [tag |-> tag, a |-> a, b |-> b]
Ev(fn, arg) == [fn |-> fn, arg |-> arg]
BoolStr(b) == IF b THEN "True" ELSE "False"

\* a run record of the results dict; absent keys are -1 / ""
Absent == [present |-> FALSE, success |-> FALSE, time |-> -1, segments |-> -1,
           error |-> "", reason |-> "", device |-> ""]
RunOk(t, n, dev) == [present |-> TRUE, success |-> TRUE, time |-> t, segments |-> n,
                     error |-> "", reason |-> "", device |-> dev]
RunFailed(e) == [present |-> TRUE, success |-> FALSE, time |-> -1, segments |-> -1,
                 error |-> e, reason |-> "", device |-> ""]
RunSkipped == [present |-> TRUE, success |-> FALSE, time |-> -1, segments |-> -1,
               error |-> "", reason |-> "No GPU available", device |-> ""]

\* duration = None, or a number of seconds
NoDuration == [known |-> FALSE, v |-> 0]
Seconds(d) == [known |-> TRUE, v |-> d]

\* what the benchmark keeps besides the invoker's state
bench == <<duration, b_device, results>>

NoResult == [segments |-> <<>>, set |-> FALSE]

Init ==
  /\ \/ prog = "cli" /\ argv \in CliArgvs
     \/ prog = "bench" /\ argv \in BenchArgvs
  /\ envToken \in EnvTokens
  /\ mps \in BOOLEAN
  /\ cuda \in BOOLEAN
  /\ pc = "argc"
  /\ exitCode = -1
  /\ stdout = <<>>
  /\ stderr = <<>>
  /\ hf_token = None
  /\ ipc = "idle"
  /\ i_use_gpu = FALSE
  /\ device = None
  /\ output = <<>>
  /\ result = NoResult
  /\ duration = NoDuration
  /\ b_device = None
  /\ results = [cpu |-> Absent, gpu |-> Absent]
  /\ trace = <<>>
  /\ interrupted = FALSE

----------------------------------------------------------------------------
(* diarize_audio: the invoker, called by both entry points *)

\* the caller is blocked inside a diarize_audio call
InCall == pc \in {"wait", "cpu_wait", "gpu_wait"}

\* the call statement: parameters bound, body not yet started
StartCall(use_gpu) ==
  /\ ipc' = "device"
  /\ i_use_gpu' = use_gpu
  /\ device' = None
  /\ output' = <<>>
  /\ result' = NoResult

\* the caller took the outcome: the frame of diarize_audio and its locals are gone.
\* Of the returned dict the benchmark reads only len(result['segments']), which it
\* stores in its record at that moment
EndCall ==
  /\ ipc' = "idle"
  /\ i_use_gpu' = FALSE
  /\ device' = None
  /\ output' = <<>>
  /\ result' = NoResult

\* an exception leaves diarize_audio
Raise(what) ==
  /\ ipc' = "raised"
  /\ trace' = trace \o <<Ev(what, "raise"), Ev("diarize_audio", "raise")>>

InvResolveDevice ==
  /\ InCall /\ ipc = "device"
  /\ device' = GetDevice(i_use_gpu, mps, cuda)
  /\ stderr' = Append(stderr, "[PROGRESS] Using device")
  /\ trace' = Append(trace, Ev("get_device", BoolStr(i_use_gpu)))
  /\ ipc' = "load"
  /\ UNCHANGED <<env, pc, exitCode, stdout, hf_token, i_use_gpu, output, result,
                 bench, interrupted>>

\* a mutant of the load step: the pipeline is relocated whatever the device
InvLoadAlwaysRelocate ==
  /\ InCall /\ ipc = "load"
  /\ stderr' = Append(stderr, "[PROGRESS] Loading")
  /\ \/ /\ ipc' = "relocate"
        /\ trace' = Append(trace, Ev("from_pretrained", hf_token))
     \/ Raise("from_pretrained")
  /\ UNCHANGED <<env, pc, exitCode, stdout, hf_token, i_use_gpu, device, output, result,
                 bench, interrupted>>

InvLoad ==
  /\ InCall /\ ipc = "load"
  /\ stderr' = Append(stderr, "[PROGRESS] Loading")
  /\ \/ /\ ipc' = IF device # "cpu" THEN "relocate" ELSE "infer"
        /\ trace' = Append(trace, Ev("from_pretrained", hf_token))
     \/ Raise("from_pretrained")
  /\ UNCHANGED <<env, pc, exitCode, stdout, hf_token, i_use_gpu, device, output, result,
                 bench, interrupted>>

InvRelocate ==
  /\ InCall /\ ipc = "relocate"
  /\ stderr' = Append(stderr, "[PROGRESS] Moving models")
  /\ \/ /\ ipc' = "infer"
        /\ trace' = Append(trace, Ev("to", device))
     \/ Raise("to")
  /\ UNCHANGED <<env, pc, exitCode, stdout, hf_token, i_use_gpu, device, output, result,
                 bench, interrupted>>

InvInfer ==
  /\ InCall /\ ipc = "infer"
  /\ stderr' = Append(stderr, "[PROGRESS] Analyzing")
  /\ \/ /\ \E turns \in TurnSeqs : output' = turns
        /\ ipc' = "project"
        /\ trace' = Append(trace, Ev("pipeline", PyAt(argv, 1)))
     \/ Raise("pipeline") /\ UNCHANGED output
  /\ UNCHANGED <<env, pc, exitCode, stdout, hf_token, i_use_gpu, device, result,
                 bench, interrupted>>

InvProject ==
  /\ InCall /\ ipc = "project"
  /\ stderr' = Append(stderr, "[PROGRESS] Generating")
  /\ result' = [segments |-> Project(output), set |-> TRUE]
  /\ ipc' = "returned"
  /\ trace' = trace \o <<Ev("itertracks", ""), Ev("diarize_audio", "return")>>
  /\ UNCHANGED <<env, pc, exitCode, stdout, hf_token, i_use_gpu, device, output,
                 bench, interrupted>>

----------------------------------------------------------------------------
(* main of diarize_audio.py *)

Exit(code) == pc' = "exited" /\ exitCode' = code

\* a mutant of the existence check: a missing file is not rejected
CliCheckPathSkipped ==
  /\ prog = "cli" /\ pc = "path"
  /\ pc' = "token"
  /\ UNCHANGED <<env, exitCode, stdout, stderr, hf_token, invoker, bench, trace, interrupted>>

CliCheckArgc ==
  /\ prog = "cli" /\ pc = "argc"
  /\ IF Len(argv) < 2
     THEN /\ stderr' = stderr \o <<"Error: Missing audio file path", "Usage">>
          /\ Exit(1)
     ELSE /\ pc' = "path"
          /\ UNCHANGED <<stderr, exitCode>>
  /\ UNCHANGED <<env, stdout, hf_token, invoker, bench, trace, interrupted>>

CliCheckPath ==
  /\ prog = "cli" /\ pc = "path"
  /\ IF ~PathExists(PyAt(argv, 1))
     THEN /\ stderr' = Append(stderr, "Error: Audio file not found")
          /\ Exit(1)
     ELSE /\ pc' = "token"
          /\ UNCHANGED <<stderr, exitCode>>
  /\ UNCHANGED <<env, stdout, hf_token, invoker, bench, trace, interrupted>>

CliResolveToken ==
  /\ prog = "cli" /\ pc = "token"
  /\ hf_token' = ResolveToken(argv, envToken)
  /\ IF Falsy(hf_token')
     THEN /\ stderr' = stderr \o <<"Error: Hugging Face token not provided",
                                    "Either set HUGGINGFACE_TOKEN or use --token">>
          /\ Exit(1)
     ELSE /\ pc' = "call"
          /\ UNCHANGED <<stderr, exitCode>>
  /\ UNCHANGED <<env, stdout, invoker, bench, trace, interrupted>>

CliCall ==
  /\ prog = "cli" /\ pc = "call"
  /\ LET use_gpu == ~PyIn("--no-gpu", argv)
     IN /\ StartCall(use_gpu)
        /\ trace' = Append(trace, Ev("diarize_audio", BoolStr(use_gpu)))
  /\ pc' = "wait"
  /\ UNCHANGED <<env, exitCode, stdout, stderr, hf_token, bench, interrupted>>

\* a mutant of the success path: the text is printed segment by segment, so an
\* encoding error leaves a partial object on standard output
CliPrintStreaming ==
  /\ prog = "cli" /\ pc = "wait" /\ ipc = "returned"
  /\ IF JsonEncodable(result)
     THEN /\ stdout' = Append(stdout, Line("json", JsonDumps(result), 0))
          /\ Exit(0)
          /\ UNCHANGED stderr
     ELSE /\ stdout' = Append(stdout, Line("json", <<"{", "segments">>, 0))
          /\ stderr' = Append(stderr, "Error during diarization")
          /\ Exit(1)
  /\ UNCHANGED <<env, hf_token, invoker, bench, trace, interrupted>>

\* diarize_audio returned: json.dumps, then print; a TypeError of json.dumps is
\* caught by the except clause before anything is printed
CliPrint ==
  /\ prog = "cli" /\ pc = "wait" /\ ipc = "returned"
  /\ IF JsonEncodable(result)
     THEN /\ stdout' = Append(stdout, Line("json", JsonDumps(result), 0))
          /\ Exit(0)
          /\ UNCHANGED stderr
     ELSE /\ stderr' = Append(stderr, "Error during diarization")
          /\ Exit(1)
          /\ UNCHANGED stdout
  /\ UNCHANGED <<env, hf_token, invoker, bench, trace, interrupted>>

\* diarize_audio raised: except Exception
CliCatch ==
  /\ prog = "cli" /\ pc = "wait" /\ ipc = "raised"
  /\ stderr' = Append(stderr, "Error during diarization")
  /\ Exit(1)
  /\ UNCHANGED <<env, stdout, hf_token, invoker, bench, trace, interrupted>>

----------------------------------------------------------------------------
(* main and benchmark_diarization of benchmark_diarization.py *)

\* if duration:
Truthy(d) == d.known /\ d.v # 0

\* str(e) of the exception that left the last diarize_audio call
LastError == trace[Len(trace) - 1].fn

\* the optional "Processing ratio" line of a successful run
RatioLine(tag, t) == IF Truthy(duration) THEN <<Line(tag, t, duration.v)>> ELSE <<>>

BenchCheckArgc ==
  /\ prog = "bench" /\ pc = "argc"
  /\ IF Len(argv) < 2
     THEN /\ stderr' = stderr \o <<"Error: Missing audio file path", "Usage", "Example">>
          /\ Exit(1)
     ELSE /\ pc' = "path"
          /\ UNCHANGED <<stderr, exitCode>>
  /\ UNCHANGED <<env, stdout, hf_token, invoker, bench, trace, interrupted>>

BenchCheckPath ==
  /\ prog = "bench" /\ pc = "path"
  /\ IF ~PathExists(PyAt(argv, 1))
     THEN /\ stderr' = Append(stderr, "Error: Audio file not found")
          /\ Exit(1)
     ELSE /\ pc' = "token"
          /\ UNCHANGED <<stderr, exitCode>>
  /\ UNCHANGED <<env, stdout, hf_token, invoker, bench, trace, interrupted>>

BenchToken ==
  /\ prog = "bench" /\ pc = "token"
  /\ hf_token' = envToken
  /\ IF Falsy(hf_token')
     THEN /\ stderr' = stderr \o <<"Error: HUGGINGFACE_TOKEN environment variable not set",
                                    "Set it with: export HUGGINGFACE_TOKEN">>
          /\ Exit(1)
     ELSE /\ pc' = "header"
          /\ UNCHANGED <<stderr, exitCode>>
  /\ UNCHANGED <<env, stdout, invoker, bench, trace, interrupted>>

\* benchmark_diarization is entered: the banner
BenchHeader ==
  /\ prog = "bench" /\ pc = "header"
  /\ stdout' = Append(stdout, Line("banner", 0, 0))
  /\ pc' = "probe"
  /\ UNCHANGED <<env, exitCode, stderr, hf_token, invoker, bench, trace, interrupted>>

\* the ffprobe call inside try / bare except
BenchProbe ==
  /\ prog = "bench" /\ pc = "probe"
  /\ trace' = Append(trace, Ev("ffprobe", PyAt(argv, 1)))
  /\ \/ \E d \in Durations :
          /\ duration' = Seconds(d)
          /\ stdout' = Append(stdout, Line("duration", d, 0))
     \/ /\ duration' = NoDuration
        /\ stdout' = Append(stdout, Line("duration_unknown", 0, 0))
  /\ pc' = "devices"
  /\ UNCHANGED <<env, exitCode, stderr, hf_token, invoker, b_device, results, interrupted>>

\* the list of available devices
BenchDevices ==
  /\ prog = "bench" /\ pc = "devices"
  /\ stdout' = Append(stdout, Line("devices", IF mps THEN 1 ELSE 0, IF cuda THEN 1 ELSE 0))
  /\ pc' = "cpu_call"
  /\ UNCHANGED <<env, exitCode, stderr, hf_token, invoker, bench, trace, interrupted>>

\* Test 1: diarize_audio(audio_path, hf_token, use_gpu=False)
BenchCpuCall ==
  /\ prog = "bench" /\ pc = "cpu_call"
  /\ stdout' = Append(stdout, Line("test1", 0, 0))
  /\ StartCall(FALSE)
  /\ trace' = Append(trace, Ev("diarize_audio", BoolStr(FALSE)))
  /\ pc' = "cpu_wait"
  /\ UNCHANGED <<env, exitCode, stderr, hf_token, bench, interrupted>>

BenchCpuDone ==
  /\ prog = "bench" /\ pc = "cpu_wait" /\ ipc = "returned"
  /\ \E cpu_time \in 0..MaxElapsed :
       /\ results' = [results EXCEPT !.cpu = RunOk(cpu_time, Len(result.segments), "")]
       /\ stdout' = stdout \o <<Line("cpu_ok", cpu_time, Len(result.segments))>>
                           \o RatioLine("cpu_ratio", cpu_time)
  /\ EndCall
  /\ pc' = "gpu_check"
  /\ UNCHANGED <<env, exitCode, stderr, hf_token, duration, b_device, trace, interrupted>>

\* a mutant of the first run's except clause: the error is raised again
BenchCpuFailReraised ==
  /\ prog = "bench" /\ pc = "cpu_wait" /\ ipc = "raised"
  /\ stdout' = Append(stdout, Line("cpu_failed", 0, 0))
  /\ stderr' = stderr \o <<"Error during benchmark", "Traceback">>
  /\ Exit(1)
  /\ UNCHANGED <<env, hf_token, invoker, bench, trace, interrupted>>

\* the first run raised: except Exception
BenchCpuFail ==
  /\ prog = "bench" /\ pc = "cpu_wait" /\ ipc = "raised"
  /\ stdout' = Append(stdout, Line("cpu_failed", 0, 0))
  /\ results' = [results EXCEPT !.cpu = RunFailed(LastError)]
  /\ EndCall
  /\ pc' = "gpu_check"
  /\ UNCHANGED <<env, exitCode, stderr, hf_token, duration, b_device, trace, interrupted>>

\* a mutant of Test 2: the run is started whatever device was resolved
BenchGpuCheckNoSkip ==
  /\ prog = "bench" /\ pc = "gpu_check"
  /\ b_device' = GetDevice(TRUE, mps, cuda)
  /\ stdout' = stdout \o <<Line("test2", 0, 0), Line("using_device", 0, 0)>>
  /\ StartCall(TRUE)
  /\ trace' = trace \o <<Ev("get_device", BoolStr(TRUE)), Ev("diarize_audio", BoolStr(TRUE))>>
  /\ pc' = "gpu_wait"
  /\ UNCHANGED <<env, exitCode, stderr, hf_token, duration, results, interrupted>>

\* Test 2: skipped when get_device(use_gpu=True) is the CPU, else the second call
BenchGpuCheck ==
  /\ prog = "bench" /\ pc = "gpu_check"
  /\ b_device' = GetDevice(TRUE, mps, cuda)
  /\ IF b_device' = "cpu"
     THEN /\ stdout' = stdout \o <<Line("test2", 0, 0), Line("gpu_skipped", 0, 0)>>
          /\ results' = [results EXCEPT !.gpu = RunSkipped]
          /\ trace' = Append(trace, Ev("get_device", BoolStr(TRUE)))
          /\ pc' = "summary"
          /\ UNCHANGED invoker
     ELSE /\ stdout' = stdout \o <<Line("test2", 0, 0), Line("using_device", 0, 0)>>
          /\ StartCall(TRUE)
          /\ trace' = trace \o <<Ev("get_device", BoolStr(TRUE)),
                                 Ev("diarize_audio", BoolStr(TRUE))>>
          /\ pc' = "gpu_wait"
          /\ UNCHANGED results
  /\ UNCHANGED <<env, exitCode, stderr, hf_token, duration, interrupted>>

BenchGpuDone ==
  /\ prog = "bench" /\ pc = "gpu_wait" /\ ipc = "returned"
  /\ \E gpu_time \in 0..MaxElapsed :
       /\ results' = [results EXCEPT !.gpu = RunOk(gpu_time, Len(result.segments), b_device)]
       /\ stdout' = stdout \o <<Line("gpu_ok", gpu_time, Len(result.segments))>>
                           \o RatioLine("gpu_ratio", gpu_time)
  /\ EndCall
  /\ pc' = "summary"
  /\ UNCHANGED <<env, exitCode, stderr, hf_token, duration, b_device, trace, interrupted>>

\* the second run raised: except Exception
BenchGpuFail ==
  /\ prog = "bench" /\ pc = "gpu_wait" /\ ipc = "raised"
  /\ stdout' = Append(stdout, Line("gpu_failed", 0, 0))
  /\ results' = [results EXCEPT !.gpu = RunFailed(LastError)]
  /\ EndCall
  /\ pc' = "summary"
  /\ UNCHANGED <<env, exitCode, stderr, hf_token, duration, b_device, trace, interrupted>>

\* the qualitative tier of speedup = cpu_time / gpu_time, for gpu_time > 0
Tier(cpu_time, gpu_time) ==
  IF cpu_time >= TierExcellent * gpu_time THEN "tier_excellent"
  ELSE IF cpu_time >= TierGood * gpu_time THEN "tier_good"
  ELSE IF TierModerateDen * cpu_time >= TierModerateNum * gpu_time THEN "tier_moderate"
  ELSE "tier_minimal"

\* the lines of the branch taken when both runs succeeded
BothLines(cpu_time, gpu_time) ==
  <<Line("sum_cpu_time", cpu_time, 0), Line("sum_gpu_time", gpu_time, 0),
    Line("sum_time_saved", cpu_time - gpu_time, 0), Line("sum_speedup", cpu_time, gpu_time)>>
  \o (IF Truthy(duration)
      THEN <<Line("sum_duration", duration.v, 0), Line("sum_cpu_ratio", cpu_time, duration.v),
             Line("sum_gpu_ratio", gpu_time, duration.v)>>
      ELSE <<>>)
  \o <<Line(Tier(cpu_time, gpu_time), cpu_time, gpu_time)>>
  \o (IF Truthy(duration) /\ duration.v >= LongRecording
      THEN <<Line("sum_impact", cpu_time - gpu_time, 20)>>
      ELSE <<>>)

\* the Summary section; cpu_time / gpu_time raises ZeroDivisionError for gpu_time = 0,
\* which main reports on the error stream with exit status 1
BenchSummary ==
  /\ prog = "bench" /\ pc = "summary"
  /\ IF results.cpu.success /\ results.gpu.success
     THEN IF results.gpu.time = 0
          THEN /\ stdout' = Append(stdout, Line("results", 0, 0))
               /\ stderr' = stderr \o <<"Error during benchmark", "Traceback">>
               /\ Exit(1)
          ELSE /\ stdout' = stdout \o <<Line("results", 0, 0)>>
                                   \o BothLines(results.cpu.time, results.gpu.time)
                                   \o <<Line("footer", 0, 0)>>
               /\ Exit(0)
               /\ UNCHANGED stderr
     ELSE IF results.cpu.success
          THEN /\ stdout' = stdout \o <<Line("results", 0, 0),
                                        Line("sum_cpu_time", results.cpu.time, 0),
                                        Line("sum_gpu_not_tested", 0, 0),
                                        Line("footer", 0, 0)>>
               /\ Exit(0)
               /\ UNCHANGED stderr
          ELSE /\ stdout' = stdout \o <<Line("results", 0, 0), Line("sum_failed", 0, 0),
                                        Line("footer", 0, 0)>>
               /\ Exit(0)
               /\ UNCHANGED stderr
  /\ UNCHANGED <<env, hf_token, invoker, bench, trace, interrupted>>

\* control is inside benchmark_diarization
InBenchmark ==
  prog = "bench" /\ pc \in {"header", "probe", "devices", "cpu_call", "cpu_wait",
                            "gpu_check", "gpu_wait", "summary"}

\* the user's interrupt key: KeyboardInterrupt is raised at the current position.
\* Inside the try of the duration probe the bare except takes it; anywhere else it
\* passes except Exception and reaches main's except KeyboardInterrupt
BenchInterrupt ==
  /\ InBenchmark
  /\ interrupted' = TRUE
  /\ IF pc = "probe"
     THEN /\ duration' = NoDuration
          /\ stdout' = Append(stdout, Line("duration_unknown", 0, 0))
          /\ trace' = Append(trace, Ev("ffprobe", PyAt(argv, 1)))
          /\ pc' = "devices"
          /\ UNCHANGED exitCode
     ELSE /\ stdout' = Append(stdout, Line("interrupted", 0, 0))
          /\ Exit(1)
          /\ UNCHANGED <<duration, trace>>
  /\ UNCHANGED <<env, stderr, hf_token, invoker, b_device, results>>

----------------------------------------------------------------------------
Next ==
  \/ InvResolveDevice \/ InvLoad \/ InvRelocate \/ InvInfer \/ InvProject
  \/ CliCheckArgc \/ CliCheckPath \/ CliResolveToken \/ CliCall \/ CliPrint \/ CliCatch
  \/ BenchCheckArgc \/ BenchCheckPath \/ BenchToken \/ BenchHeader \/ BenchProbe
  \/ BenchDevices \/ BenchCpuCall \/ BenchCpuDone \/ BenchCpuFail \/ BenchGpuCheck
  \/ BenchGpuDone \/ BenchGpuFail \/ BenchSummary \/ BenchInterrupt

Spec == Init /\ [][Next]_vars

----------------------------------------------------------------------------
(* Vocabulary of the properties *)

HasOut(tag) == \E i \in DOMAIN stdout : stdout[i].tag = tag
CountOut(tag) == Cardinality({i \in DOMAIN stdout : stdout[i].tag = tag})
HasErr(text) == \E i \in DOMAIN stderr : stderr[i] = text
Called(fn) == \E i \in DOMAIN trace : trace[i].fn = fn

IsPrefix(s, t) == Len(s) <= Len(t) /\ \A i \in DOMAIN s : s[i] = t[i]

IsCallMark(e) == e.fn = "diarize_audio" /\ e.arg \in {"True", "False"}
IsEndMark(e) == e.fn = "diarize_audio" /\ e.arg \in {"return", "raise"}

\* the use_gpu arguments of the diarize_audio calls made so far, in order
CallArgs == LET marks == SelectSeq(trace, IsCallMark) IN [i \in DOMAIN marks |-> marks[i].arg]
\* how the diarize_audio calls that ended so far ended, in order
Outcomes == LET marks == SelectSeq(trace, IsEndMark) IN [i \in DOMAIN marks |-> marks[i].arg]

\* the value that follows the first --token on the command line, if any
FlagValue ==
  IF \E i \in DOMAIN argv : argv[i] = "--token"
  THEN LET first == CHOOSE i \in DOMAIN argv :
                      argv[i] = "--token" /\ \A j \in DOMAIN argv : argv[j] = "--token" => i <= j
       IN IF first + 1 \in DOMAIN argv THEN argv[first + 1] ELSE None
  ELSE None

\* the token the entry point is to use: the flag's value, else the environment's
TokenToUse ==
  IF prog = "cli" /\ FlagValue # None /\ FlagValue # "" THEN FlagValue ELSE envToken

PathGiven == Len(argv) >= 2
PathOk == PathGiven /\ argv[2] = GoodPath
TokenOk == TokenToUse # None /\ TokenToUse # ""
NoAccelerator == ~mps /\ ~cuda

----------------------------------------------------------------------------
(* C1 *)

\* C1: every run of the diarization CLI ends either with exit status 0 and exactly
\* the complete JSON object of the result on standard output, or with exit status 1
\* and nothing on standard output; before the exit nothing is on standard output,
\* and every failure leaves its diagnostic on the error stream.
C1_ExitContract ==
  prog = "cli" =>
    /\ pc # "exited" => stdout = <<>> /\ exitCode = -1
    /\ pc = "exited" =>
         \/ /\ exitCode = 0
            /\ ipc = "returned"
            /\ Len(stdout) = 1
            /\ stdout[1].tag = "json"
            /\ stdout[1].a = <<"{", "segments", result.segments, "}">>
         \/ /\ exitCode = 1
            /\ stdout = <<>>
            /\ stderr # <<>>
            /\ \E i \in DOMAIN stderr : stderr[i] \notin
                 {"[PROGRESS] Using device", "[PROGRESS] Loading", "[PROGRESS] Moving models",
                  "[PROGRESS] Analyzing", "[PROGRESS] Generating"}

\* a run that printed a result of two segments and exited 0
C1_Witness ==
  /\ prog = "cli" /\ pc = "exited" /\ exitCode = 0
  /\ Len(stdout) = 1 /\ Len(result.segments) = 2

----------------------------------------------------------------------------
(* C2 *)

\* C2: get_device(False) is the CPU in every environment; get_device(True) is Metal
\* whenever Metal is available, CUDA exactly when Metal is not and CUDA is, the CPU
\* exactly when neither is; every device a run resolved obeys this, and the
\* benchmark's own resolution and the invoker's agree.
C2_DevicePriority ==
  /\ GetDevice(FALSE, mps, cuda) = "cpu"
  /\ mps => GetDevice(TRUE, mps, cuda) = "mps"
  /\ GetDevice(TRUE, mps, cuda) = "cuda" <=> (~mps /\ cuda)
  /\ GetDevice(TRUE, mps, cuda) = "cpu" <=> (~mps /\ ~cuda)
  /\ device # None =>
       device = IF ~i_use_gpu THEN "cpu"
                ELSE IF mps THEN "mps" ELSE IF cuda THEN "cuda" ELSE "cpu"
  /\ b_device # None =>
       b_device = IF mps THEN "mps" ELSE IF cuda THEN "cuda" ELSE "cpu"
  /\ (pc = "gpu_wait" /\ device # None) => device = b_device

\* both accelerators available, and the second benchmark run resolved Metal
C2_Witness == mps /\ cuda /\ pc = "gpu_wait" /\ device = "mps" /\ b_device = "mps"

----------------------------------------------------------------------------
(* C3 *)

\* C3: in the diarization CLI, once the path checks have passed, the token used is
\* the value following --token when that value is non-empty, whatever the
\* environment holds, and the environment variable otherwise; when neither is
\* non-empty the process exits 1 with the token diagnostic and calls nothing.
C3_TokenResolution ==
  (prog = "cli" /\ PathOk /\ pc \in {"call", "wait", "exited"}) =>
    IF TokenOk
    THEN /\ hf_token = TokenToUse
         /\ \A i \in DOMAIN trace : trace[i].fn = "from_pretrained" /\ trace[i].arg # "raise"
                                     => trace[i].arg = TokenToUse
         /\ ~HasErr("Error: Hugging Face token not provided")
    ELSE /\ pc = "exited" /\ exitCode = 1
         /\ HasErr("Error: Hugging Face token not provided")
         /\ trace = <<>>

\* --token tokA given while the environment holds another token: tokA is loaded with
C3_Witness ==
  /\ prog = "cli" /\ FlagValue = "tokA" /\ envToken = "tokE"
  /\ \E i \in DOMAIN trace : trace[i] = Ev("from_pretrained", "tokA")

----------------------------------------------------------------------------
(* C4 *)

\* C4: in both entry points a run whose path argument is missing, whose path does not
\* exist or for which no non-empty token resolves makes no external call at all (no
\* device resolution, no pipeline load, no inference, no duration probe), never
\* leaves the validation steps except by exit status 1; so any call that was made
\* was made in a run whose path existed and whose token was non-empty.
C4_ValidationFirst ==
  /\ ~(PathOk /\ TokenOk) =>
       /\ trace = <<>>
       /\ device = None /\ b_device = None /\ ~duration.known
       /\ pc \in {"argc", "path", "token", "exited"}
       /\ pc = "exited" => exitCode = 1
  /\ (Called("from_pretrained") \/ Called("get_device") \/ Called("ffprobe")
        \/ Called("pipeline")) => PathOk /\ TokenOk

\* the benchmark given an existing path and an empty token: exit 1, nothing called
C4_Witness ==
  /\ prog = "bench" /\ PathOk /\ envToken = "" /\ pc = "exited" /\ exitCode = 1
  /\ trace = <<>>

----------------------------------------------------------------------------
(* C5 *)

\* the benchmark was given a valid path and token
BenchValid == prog = "bench" /\ PathOk /\ TokenOk

\* no diarize_audio call starts while another has not ended
NeverOverlapping ==
  \A k \in DOMAIN trace :
    LET started == Cardinality({i \in 1..k : IsCallMark(trace[i])})
        ended == Cardinality({i \in 1..k : IsEndMark(trace[i])})
    IN started - ended \in {0, 1}

\* an error of a run is kept in that run's record and not raised; the other run's
\* record is what that run left
RunsIsolated ==
  /\ (Len(Outcomes) >= 1 /\ Outcomes[1] = "raise" /\ results.cpu.present) =>
       ~results.cpu.success /\ results.cpu.error # "" /\ HasOut("cpu_failed")
  /\ (Len(Outcomes) >= 1 /\ Outcomes[1] = "return" /\ results.cpu.present) =>
       /\ results.cpu.success
       /\ \E i \in DOMAIN stdout : stdout[i].tag = "cpu_ok" /\ stdout[i].a = results.cpu.time
  /\ (Len(Outcomes) = 2 /\ Outcomes[2] = "raise" /\ results.gpu.present) =>
       ~results.gpu.success /\ results.gpu.error # "" /\ HasOut("gpu_failed")
  /\ (pc = "exited" /\ ~HasOut("interrupted") /\ Len(Outcomes) >= 1
        /\ \E i \in DOMAIN Outcomes : Outcomes[i] = "raise") =>
       /\ exitCode = 0
       /\ results.cpu.present /\ results.gpu.present

\* C5 as stated: the benchmark that reaches its report has run the invoker twice,
\* first with acceleration disabled and then requested, never overlapping, each
\* run's error kept in its own record and not raised.
C5_Original ==
  BenchValid =>
    /\ IsPrefix(CallArgs, <<"False", "True">>)
    /\ NeverOverlapping
    /\ RunsIsolated
    /\ HasOut("results") => CallArgs = <<"False", "True">>

\* C5 (amended): the benchmark runs the invoker with acceleration disabled and
\* then, when device resolution finds an accelerator, once more with acceleration
\* requested, and only once when it finds none; the runs never overlap, and each
\* run's error is kept in its own record and not raised, so the first run's failure
\* does not stop the second and the second's failure keeps the first's record.
C5_Amended ==
  BenchValid =>
    /\ IsPrefix(CallArgs, <<"False", "True">>)
    /\ NeverOverlapping
    /\ RunsIsolated
    /\ HasOut("results") =>
         CallArgs = IF NoAccelerator THEN <<"False">> ELSE <<"False", "True">>

\* the first run raised, the second was still made and succeeded, exit 0
C5_Witness ==
  /\ BenchValid /\ pc = "exited" /\ exitCode = 0
  /\ Outcomes = <<"raise", "return">>
  /\ ~results.cpu.success /\ results.gpu.success

----------------------------------------------------------------------------
(* C6 *)

\* the lines of the BENCHMARK RESULTS section
Report ==
  LET at == CHOOSE i \in DOMAIN stdout : stdout[i].tag = "results"
  IN SubSeq(stdout, at + 1, Len(stdout))

InReport(tag) == \E i \in DOMAIN Report : Report[i].tag = tag
Tiers == {"tier_excellent", "tier_good", "tier_moderate", "tier_minimal"}

\* C6: the final report follows from the two run records: both succeeded, both
\* timings with the speedup and exactly one tier; only the no-accel run succeeded,
\* its timing alone; neither, failure; and whichever run succeeded has its timing in
\* the report even when the other failed.
C6_ReportFollowsRecords ==
  (prog = "bench" /\ pc = "exited" /\ HasOut("results")) =>
    /\ (results.cpu.success /\ results.gpu.success) =>
         /\ \E i \in DOMAIN Report :
              Report[i] = Line("sum_speedup", results.cpu.time, results.gpu.time)
         /\ Cardinality({i \in DOMAIN Report : Report[i].tag \in Tiers}) = 1
    /\ (results.cpu.success /\ ~results.gpu.success) =>
         ~InReport("sum_gpu_time") /\ ~InReport("sum_speedup")
    /\ (~results.cpu.success /\ ~results.gpu.success) => InReport("sum_failed")
    /\ results.cpu.success =>
         \E i \in DOMAIN Report : Report[i] = Line("sum_cpu_time", results.cpu.time, 0)
    /\ results.gpu.success =>
         \E i \in DOMAIN Report : Report[i] = Line("sum_gpu_time", results.gpu.time, 0)

----------------------------------------------------------------------------
(* C7 *)

\* what holds of every state of a benchmark without accelerator: at most one
\* invoker call, no GPU timing recorded or printed, no speedup printed
NoGpuFigures ==
  /\ Len(CallArgs) <= 1
  /\ ~results.gpu.success /\ results.gpu.time = -1
  /\ ~HasOut("gpu_ok") /\ ~HasOut("sum_gpu_time") /\ ~HasOut("sum_speedup")

\* C7 as stated, read of the runs no user interrupt ends: with valid path and token
\* and no accelerator the benchmark ends with exit status 0, the CPU run's timing
\* reported and the GPU test stated skipped, without a second invoker call or any
\* GPU timing or speedup.
C7_Original ==
  (BenchValid /\ NoAccelerator) =>
    /\ NoGpuFigures
    /\ (pc = "exited" /\ ~HasOut("interrupted")) =>
         /\ exitCode = 0
         /\ HasOut("gpu_skipped")
         /\ \E i \in DOMAIN Report : Report[i] = Line("sum_cpu_time", results.cpu.time, 0)

\* C7 (amended): with valid path and token and no accelerator the benchmark never
\* calls the invoker a second time and never records or prints a GPU timing or a
\* speedup; every run that no user interrupt ends finishes with exit status 0 and
\* states that the GPU test was skipped, and its report holds the CPU run's timing
\* when the CPU run succeeded and the failure line, without a timing, when it raised.
C7_Amended ==
  (BenchValid /\ NoAccelerator) =>
    /\ NoGpuFigures
    /\ (pc = "exited" /\ ~HasOut("interrupted")) =>
         /\ exitCode = 0
         /\ HasOut("gpu_skipped")
         /\ Len(Outcomes) = 1
         /\ Outcomes = <<"return">> =>
              \E i \in DOMAIN Report : Report[i] = Line("sum_cpu_time", results.cpu.time, 0)
         /\ Outcomes = <<"raise">> => InReport("sum_failed") /\ ~InReport("sum_cpu_time")

\* no accelerator, the CPU run succeeded: exit 0, timing reported, skip stated
C7_Witness ==
  /\ BenchValid /\ NoAccelerator /\ pc = "exited" /\ exitCode = 0
  /\ Outcomes = <<"return">> /\ HasOut("gpu_skipped") /\ InReport("sum_cpu_time")

----------------------------------------------------------------------------
(* C8 *)

\* C8: once a user interrupt has arrived inside benchmark_diarization, the process
\* has ended with exit status 1 and one interruption message, and no benchmark
\* step runs afterwards.
C8_InterruptEndsRun ==
  interrupted => pc = "exited" /\ exitCode = 1 /\ CountOut("interrupted") = 1

----------------------------------------------------------------------------
(* C9 *)

\* the events of the latest diarize_audio call, from after its call mark through
\* its end mark
CallBody ==
  LET from == CHOOSE i \in DOMAIN trace :
                IsCallMark(trace[i]) /\ \A j \in DOMAIN trace : IsCallMark(trace[j]) => j <= i
      ends == {i \in (from + 1)..Len(trace) : IsEndMark(trace[i])}
      to == IF ends = {} THEN Len(trace) ELSE CHOOSE i \in ends : \A j \in ends : i <= j
  IN SubSeq(trace, from + 1, to)

\* the steps a call with the given use_gpu is to take, in order
StepsFor(use_gpu) ==
  <<"get_device", "from_pretrained">>
  \o (IF use_gpu /\ ~NoAccelerator THEN <<"to">> ELSE <<>>)
  \o <<"pipeline", "itertracks">>

\* C9: the steps of every diarize_audio call are, in order and once each: resolve
\* device, load, relocate exactly when the device is not the CPU, infer, project;
\* an error at load, relocation or inference ends the call right there with that
\* error, no step after it, none repeated, and no result returned.
C9_StepSequence ==
  CallArgs # <<>> =>
    LET body == CallBody
        n == Len(body)
        fns == [i \in DOMAIN body |-> body[i].fn]
        steps == StepsFor(CallArgs[Len(CallArgs)] = "True")
    IN IF n > 0 /\ body[n] = Ev("diarize_audio", "return")
       THEN /\ SubSeq(fns, 1, n - 1) = steps
            /\ \A i \in 1..(n - 1) : body[i].arg # "raise"
       ELSE IF n > 0 /\ body[n] = Ev("diarize_audio", "raise")
       THEN /\ n >= 2
            /\ IsPrefix(SubSeq(fns, 1, n - 1), steps)
            /\ \A i \in 1..(n - 2) : body[i].arg # "raise"
            /\ body[n - 1].arg = "raise"
            /\ body[n - 1].fn \in {"from_pretrained", "to", "pipeline"}
            /\ ~result.set
       ELSE /\ IsPrefix(fns, steps)
            /\ \A i \in 1..n : body[i].arg # "raise"
            /\ ~result.set

\* a call that loaded the pipeline and failed to relocate it
C9_Witness ==
  /\ ipc = "raised" /\ CallArgs # <<>>
  /\ Len(CallBody) = 4 /\ CallBody[3] = Ev("to", "raise")

----------------------------------------------------------------------------
(* C10 *)

\* C10: the segments diarize_audio returns are the turns the pipeline yielded,
\* one for one and in the same order, each with its turn's start, end and label as
\* floats; nothing is reordered, dropped or merged, and no turns give no segments.
C10_Projection ==
  result.set =>
    /\ Len(result.segments) = Len(output)
    /\ \A i \in DOMAIN output :
         /\ result.segments[i].start = Time("float", output[i].start.v)
         /\ result.segments[i].end = Time("float", output[i].end.v)
         /\ result.segments[i].speaker = output[i].speaker
    /\ output = <<>> => result.segments = <<>>

\* two turns of one speaker, the later one first, came back as two segments
C10_Witness ==
  /\ result.set /\ Len(output) = 2
  /\ output[1].speaker = output[2].speaker
  /\ output[1].start.v > output[2].start.v

====
